---- MODULE Spec2Model ----
(***************************************************************************)
(* Model of ptn2midi.py: the conversion of a Roland SP-404SX pattern file  *)
(* into a MIDI note track and a SoundFont template.                        *)
(*                                                                         *)
(* Conventions.                                                            *)
(*  - A Python str that is only built and compared is a TLA+ string; a str *)
(*    that is indexed or parsed (the pattern name) is a sequence of        *)
(*    character codes.                                                     *)
(*  - Times and durations are Python floats (IEEE 754 binary64). A float   *)
(*    x is kept exactly, as the three 24-bit limbs << l2, l1, l0 >> of the *)
(*    integer x * 2^59 = l2 * 2^48 + l1 * 2^24 + l0; division and addition *)
(*    round to the nearest float, ties to even, as the hardware does.      *)
(*  - A trim position is the float (user - 512) / 2, which is exact; the   *)
(*    model keeps its double, the integer user - 512.                      *)
(*  - Integers are below 2^31.                                             *)
(*  - `/` is Python 3 true division; int() truncates toward zero and `%`   *)
(*    takes the sign of the divisor.                                       *)
(***************************************************************************)
EXTENDS Integers, Sequences, FiniteSets, TLC

VARIABLES
    pc,                           \* position of the run
    call,                         \* the function applied by a direct call: [fn, args]
    ret,                          \* its outcome: [kind, value]
    sampleformat,                 \* sys.argv[4]
    pattern,                      \* sys.argv[2], as character codes
    pads,                         \* get_pad_info: pad number -> Pad record
    files,                        \* the sample files on the card: path -> content
    ptn_filesize,                 \* get_pattern: size of the pattern file
    fpos,                         \* get_pattern: read position of f
    i,                            \* get_pattern: loop counter
    notes,                        \* get_pattern: the list it returns
    n,                            \* create_midi_file: index of the next note of `for note in notes`
    midi_file,                    \* create_midi_file: notes added to track 0
    note_path_to_pitch,
    next_available_pitch,
    wave_table_list,
    path_list,
    time_in_beats_for_next_note,  \* a float, as limbs
    xml_data,                     \* create_template: the document written
    written                       \* files written so far

vars ==
    << pc, call, ret, sampleformat, pattern, pads, files, ptn_filesize, fpos, i, notes, n,
       midi_file, note_path_to_pitch, next_available_pitch, wave_table_list, path_list,
       time_in_beats_for_next_note, xml_data, written >>

-----------------------------------------------------------------------------
(* Program constants *)

TOTAL_BANKS == 10
PADS_PER_BANK == 12
PPQ == 96
BYTES_PER_NOTE == 8
PATTERN_DIRECTORY == "ROLAND/SP-404SX/PTN/"
SAMPLE_DIRECTORY == "ROLAND/SP-404SX/SMPL/"

-----------------------------------------------------------------------------
(* Bounds and input sets *)

\* Largest pattern file size tried; sizes 0 .. MaxFileSize cover truncated files,
\* the bare trailer, whole blocks and sizes that are no multiple of 8.
MaxFileSize == 25

\* Field values of the 8-byte blocks a pattern file may hold; Pads are the pad
\* bytes of notes.
Delays == {1, 4}
Pads == {47, 107}
BankSwitches == {0, 1, 2}
Lengths == {96, 384}

\* The storage root given on the command line, after parsepath.
SdRoot == "/sd/"

\* The user_start and user_end fields of a Pad record (the fields the script reads):
\* an untrimmed pad, a pad trimmed inside the sample, a pad trimmed beyond it, and
\* a pad whose end marker lies before its start marker.
PadRecords ==
    { [ user_start |-> 512,  user_end |-> 2512 ],
      [ user_start |-> 1024, user_end |-> 2048 ],
      [ user_start |-> 4096, user_end |-> 5120 ],
      [ user_start |-> 512,  user_end |-> 510 ] }

\* A sample file, as wave.open(infile_path, "r") finds it. open is "ok" when a
\* reader is returned and else the name of the exception raised; the other fields
\* are what the reader's getnchannels, getsampwidth, getframerate and getnframes
\* return (0 when there is no reader).
\* A mono 16-bit wav of 1000 frames; a file wave.open rejects with wave.Error (a
\* text, a non-PCM wav); a file it rejects with EOFError (an empty file, a wav cut
\* inside its fmt chunk).
SampleFiles ==
    { [ open |-> "ok", nchannels |-> 1, sampwidth |-> 2, framerate |-> 44100,
        nframes |-> 1000 ],
      [ open |-> "wave.Error", nchannels |-> 0, sampwidth |-> 0, framerate |-> 0,
        nframes |-> 0 ],
      [ open |-> "EOFError", nchannels |-> 0, sampwidth |-> 0, framerate |-> 0,
        nframes |-> 0 ] }

-----------------------------------------------------------------------------
(* Python built-ins *)

AsciiTable ==
  <<
    " ", "!", "\"", "#", "$", "%", "&", "'", "(", ")", "*", "+", ",", "-", ".", "/",
    "0", "1", "2", "3", "4", "5", "6", "7", "8", "9", ":", ";", "<", "=", ">", "?",
    "@", "A", "B", "C", "D", "E", "F", "G", "H", "I", "J", "K", "L", "M", "N", "O",
    "P", "Q", "R", "S", "T", "U", "V", "W", "X", "Y", "Z", "[", "\\", "]", "^", "_" >>

\* chr(c) for an ASCII code in 32 .. 95 (space to underscore).
chr(c) == AsciiTable[c - 31]

\* str.upper() on one character code.
upper(c) == IF c >= 97 /\ c <= 122 THEN c - 32 ELSE c

\* The str whose character codes are cs.
RECURSIVE join(_)
join(cs) == IF cs = <<>> THEN "" ELSE chr(Head(cs)) \o join(Tail(cs))

\* int(a / b) for b > 0: true division, then truncation toward zero.
TruncDiv(a, b) == IF a >= 0 THEN a \div b ELSE -((-a) \div b)

\* str(k) for an integer k.
RECURSIVE str(_)
str(k) ==
    IF k < 0 THEN "-" \o str(-k)
    ELSE IF k < 10 THEN chr(48 + k)
    ELSE str(k \div 10) \o chr(48 + (k % 10))

\* s.zfill(width) for a str s without sign.
RECURSIVE zfill(_, _)
zfill(s, width) == IF Len(s) >= width THEN s ELSE zfill("0" \o s, width)

\* '%0<width>d' % k.
FormatZeroPadded(k, width) ==
    IF k < 0 THEN "-" \o zfill(str(-k), width - 1) ELSE zfill(str(k), width)

\* s.replace(old, "") for a non-empty str old: every occurrence, found from the
\* left, is removed.
RECURSIVE replace(_, _)
replace(s, old) ==
    IF Len(s) < Len(old) THEN s
    ELSE IF SubSeq(s, 1, Len(old)) = old
    THEN replace(SubSeq(s, Len(old) + 1, Len(s)), old)
    ELSE SubSeq(s, 1, 1) \o replace(SubSeq(s, 2, Len(s)), old)

\* int(cs) for a str of decimal digits, given as character codes.
RECURSIVE int(_)
int(cs) ==
    IF cs = <<>> THEN 0
    ELSE int(SubSeq(cs, 1, Len(cs) - 1)) * 10 + (cs[Len(cs)] - 48)

-----------------------------------------------------------------------------
(* Python floats *)

\* The floats of the script are 0 <= x < 8192 and multiples of 2^-59: every
\* k / 96.0 with 0 <= k < 2^18 is, and so is every sum of such floats. x is the
\* limbs << l2, l1, l0 >> of x * 2^59, each limb in 0 .. Limb - 1.
Limb == 2^24

\* The float 0.0 (and the int 0 the cursor starts as, which compares equal).
FloatZero == << 0, 0, 0 >>

\* Number of bits of a natural number.
RECURSIVE BitLength(_)
BitLength(k) == IF k = 0 THEN 0 ELSE 1 + BitLength(k \div 2)

\* The limbs of l2 * 2^48 + l1 * 2^24 + l0 when l1 and l0 may exceed a limb.
Carry(l2, l1, l0) ==
    LET m1 == l1 + (l0 \div Limb)
    IN  << l2 + (m1 \div Limb), m1 % Limb, l0 % Limb >>

SignificantBits(x) ==
    IF x[1] > 0 THEN 48 + BitLength(x[1])
    ELSE IF x[2] > 0 THEN 24 + BitLength(x[2])
    ELSE BitLength(x[3])

\* The float nearest to the exact value x + rem / den (in units of 2^-59, with
\* 0 <= rem < den): the value is cut to a significand of 53 bits and rounded to
\* nearest, ties to even.
RoundToFloat(x, rem, den) ==
    LET drop == IF SignificantBits(x) > 53 THEN SignificantBits(x) - 53 ELSE 0
        unit == 2^drop
        r == x[3] % unit
        twice == 2 * (r * den + rem)
        odd == (x[3] \div unit) % 2 = 1
        up == twice > unit * den \/ (twice = unit * den /\ odd)
    IN  Carry(x[1], x[2], x[3] - r + (IF up THEN unit ELSE 0))

\* k / (PPQ * 1.0) for an integer 0 <= k < 2^18: the long division of
\* k * 2^59 = (k * 2^11) * 2^48 by PPQ, limb by limb, and the rounding of the
\* quotient.
DivideByPPQ(k) ==
    LET l2 == k * 2^11
        q2 == l2 \div PPQ
        l1 == (l2 % PPQ) * Limb
        q1 == l1 \div PPQ
        l0 == (l1 % PPQ) * Limb
        q0 == l0 \div PPQ
    IN  RoundToFloat(<< q2, q1, q0 >>, l0 % PPQ, PPQ)

\* x + y for two floats.
FloatAdd(x, y) == RoundToFloat(Carry(x[1] + y[1], x[2] + y[2], x[3] + y[3]), 0, 1)

\* x <= y for two floats.
FloatLeq(x, y) ==
    \/ x[1] < y[1]
    \/ x[1] = y[1] /\ x[2] < y[2]
    \/ x[1] = y[1] /\ x[2] = y[2] /\ x[3] <= y[3]

-----------------------------------------------------------------------------
(* Index resolution *)

\* pad_number_to_filename without `pad_number -= 1`.
pad_number_to_filename_one_based(pad_number, fmt) ==
    LET bank_number == TruncDiv(pad_number, PADS_PER_BANK)
        bank_name == chr(65 + bank_number)
        bank_pad_number == (pad_number % PADS_PER_BANK) + 1
    IN  bank_name \o FormatZeroPadded(bank_pad_number, 7) \o "." \o fmt

\* pad number (eg 13) to file name (eg "B0000001.WAV")
pad_number_to_filename(pad_number, fmt) ==
    LET p0 == pad_number - 1
        bank_number == TruncDiv(p0, PADS_PER_BANK)
        bank_name == chr(65 + bank_number)
        bank_pad_number == (p0 % PADS_PER_BANK) + 1
    IN  bank_name \o FormatZeroPadded(bank_pad_number, 7) \o "." \o fmt

\* pattern_file_number counting the patterns of a bank from 0.
pattern_file_number_zero_based(pattern_name) ==
    LET x == (upper(pattern_name[1]) - 65) * 12
        y == (int(Tail(pattern_name)) - 1) % PADS_PER_BANK
    IN  x + y

\* x + y of pattern_name_to_filename: the number in the pattern's file name.
pattern_file_number(pattern_name) ==
    LET x == (upper(pattern_name[1]) - 65) * 12
        y == int(Tail(pattern_name)) % PADS_PER_BANK
    IN  x + y

\* pattern name (eg B12) to pattern file name (eg PTN00012.BIN)
pattern_name_to_filename(pattern_name) ==
    "PTN" \o zfill(str(pattern_file_number(pattern_name)), 5) \o ".BIN"

\* The outcome of sys.exit(1).
SysExit == [kind |-> "exit", value |-> 1]

Return(v) == [kind |-> "return", value |-> v]

\* notetuple_to_sample_number treating an unexpected bank_switch as the first five banks.
notetuple_to_sample_number_lenient(note) ==
    IF note.bank_switch = 65 \/ note.bank_switch = 1
    THEN Return(note.pad - 46 + PADS_PER_BANK * 5)
    ELSE Return(note.pad - 46)

notetuple_to_sample_number(note) ==
    IF note.bank_switch = 64 \/ note.bank_switch = 0
    THEN Return(note.pad - 46)
    ELSE IF note.bank_switch = 65 \/ note.bank_switch = 1
    THEN Return(note.pad - 46 + PADS_PER_BANK * 5)
    ELSE SysExit

notetuple_to_note_filename(note, fmt) ==
    LET r == notetuple_to_sample_number(note)
    IN  IF r.kind = "return" THEN Return(pad_number_to_filename(r.value, fmt)) ELSE r

\* The keys of the dict get_pad_info returns.
PadNumbers == 1 .. (TOTAL_BANKS * PADS_PER_BANK)

-----------------------------------------------------------------------------
(* get_pattern *)

\* struct.unpack('>BBBBBBH', note_data) into
\* Note(delay, pad, bank_switch, unknown2, velocity, unknown3, length).
Unpack(note_data) ==
    [ delay       |-> note_data[1],
      pad         |-> note_data[2],
      bank_switch |-> note_data[3],
      unknown2    |-> note_data[4],
      velocity    |-> note_data[5],
      unknown3    |-> note_data[6],
      length      |-> note_data[7] * 256 + note_data[8] ]

\* The 8-byte blocks f.read(8) may deliver: notes, and rests (pad 128) with a
\* valid and an invalid bank_switch.
Blocks ==
    { << d, p, b, 0, 127, 0, l \div 256, l % 256 >> :
        d \in Delays, p \in Pads, b \in BankSwitches, l \in Lengths }
    \cup { << d, 128, b, 0, 127, 0, 0, PPQ >> : d \in Delays, b \in {0, 2} }

\* The loop condition  i < (ptn_filesize / BYTES_PER_NOTE) - 2  of get_pattern.
\* `/` is true division, so the comparison is that of the exact rationals:
\* i < size/8 - 2  iff  8*i < size - 16.
MoreNotes(count, size) == count * BYTES_PER_NOTE < size - 2 * BYTES_PER_NOTE

-----------------------------------------------------------------------------
(* create_midi_file *)

\* The sample paths the non-rest blocks of a pattern can resolve to with sample
\* format fmt.
SamplePaths(fmt) ==
    { SdRoot \o SAMPLE_DIRECTORY \o notetuple_to_note_filename(Unpack(b), fmt).value :
        b \in { c \in Blocks : /\ Unpack(c).pad # 128
                               /\ notetuple_to_note_filename(Unpack(c), fmt).kind = "return" } }

\* The locals of create_midi_file as set before its loop.
InitialLocals ==
    [ midi_file                   |-> <<>>,
      note_path_to_pitch          |-> <<>>,
      next_available_pitch        |-> 36,
      wave_table_list             |-> <<>>,
      path_list                   |-> <<>>,
      time_in_beats_for_next_note |-> FloatZero,
      written                     |-> {},
      status                      |-> "ok" ]

\* AssignPitch without the membership test: every note takes a new pitch.
AssignPitch_every_note(s, note_path) ==
    [ s EXCEPT !.note_path_to_pitch =
                   [ p \in DOMAIN @ \cup {note_path} |->
                       IF p = note_path THEN s.next_available_pitch ELSE @[p] ],
               !.next_available_pitch = @ + 1 ]

\* if note_path not in note_path_to_pitch: assign the next available pitch.
AssignPitch(s, note_path) ==
    IF note_path \in DOMAIN s.note_path_to_pitch
    THEN s
    ELSE [ s EXCEPT !.note_path_to_pitch = (note_path :> s.next_available_pitch) @@ @,
                    !.next_available_pitch = @ + 1 ]

\* padtuple_to_trim_samplenums: (user_start - 512) / 2 and (user_end - 512) / 2 are
\* floats; the pair holds their doubles.
padtuple_to_trim_samplenums(pad) == << pad.user_start - 512, pad.user_end - 512 >>

\* floor((2 * half + 1) / b) for 2 <= b < 2^16, without leaving the integers
\* below 2^31.
FloorOfOdd(half, b) == 2 * (half \div b) + (2 * (half % b) + 1) \div b

\* a * b > 2^32 - 1 - less for a >= 0, 1 <= b < 2^16 and less = 0 or 36: the product
\* does not fit the unsigned 32-bit field struct.pack("<L") packs it into.
ExceedsUnsignedLong(a, b, less) ==
    b > 1 /\ a > FloorOfOdd(2147483647 - (less \div 2), b)

\* trim_wav_by_frame_numbers on the sample file infile with the doubled float
\* positions start2 and end2, statement by statement:
\*  210  wave.open(infile_path, "r") raises what infile.open names;
\*  211  wave.open(outfile_path, "w") creates the output file;
\*  213  setparams raises wave.Error for a sample width above 4 bytes or a frame
\*       rate of 0;
\*  215  setpos raises wave.Error for a start that is negative or beyond the frames;
\*  216  readframes raises TypeError when it seeks to the float byte offset, which
\*       it does unless the offset is 0.0; writeframes raises struct.error when it
\*       packs a header field that does not fit: a negative
\*       int(end_frame - start_frame), a block size above 65535, or a byte rate or
\*       data length above 2^32 - 1.
trim_wav_by_frame_numbers(infile, start2, end2) ==
    LET out_length_frames == TruncDiv(end2 - start2, 2)
        framesize == infile.nchannels * infile.sampwidth
    IN  IF infile.open # "ok" THEN infile.open \o " at open"
        ELSE IF infile.sampwidth > 4 \/ infile.framerate <= 0
        THEN "wave.Error at setparams"
        ELSE IF start2 < 0 \/ start2 > 2 * infile.nframes THEN "wave.Error at setpos"
        ELSE IF start2 # 0 THEN "TypeError"
        ELSE IF \/ out_length_frames < 0
                \/ framesize > 65535
                \/ ExceedsUnsignedLong(infile.framerate, framesize, 0)
                \/ ExceedsUnsignedLong(out_length_frames, framesize, 36)
        THEN "struct.error"
        ELSE "ok"

\* Lines 172-179 for a note whose sample file exists and whose pad record pad is
\* found: trim the sample into /tmp, make it mono, and add the note at the current
\* time; status names the exception when trimming raises one.
\* os.path.basename(note_path) is note_filename, which holds no "/".
AddNote(s, note, note_path, note_filename, pad, infile) ==
    LET frames == padtuple_to_trim_samplenums(pad)
        outfile_path == "/tmp/" \o note_filename
        trimmed == trim_wav_by_frame_numbers(infile, frames[1], frames[2])
    IN  IF infile.open # "ok"
        THEN [ s EXCEPT !.status = infile.open ]
        ELSE IF trimmed \in { "wave.Error at setparams", "wave.Error at setpos" }
        THEN [ s EXCEPT !.written = @ \cup { outfile_path }, !.status = "wave.Error" ]
        ELSE IF trimmed \in { "TypeError", "struct.error" }
        THEN [ s EXCEPT !.written = @ \cup { outfile_path }, !.status = trimmed ]
        ELSE [ s EXCEPT !.written = @ \cup { outfile_path, outfile_path \o "_mono.wav" },
                        !.midi_file = Append(@, [ pitch    |-> s.note_path_to_pitch[note_path],
                                                  time     |-> s.time_in_beats_for_next_note,
                                                  duration |-> DivideByPPQ(note.length),
                                                  volume   |-> 100 ]) ]

\* delay = note.delay / (PPQ * 1.0); time_in_beats_for_next_note += delay
AdvanceTime(s, note) ==
    [ s EXCEPT !.time_in_beats_for_next_note = FloatAdd(@, DivideByPPQ(note.delay)) ]

\* One iteration of `for note in notes` with locals s, pad table pt and sample files
\* fs (os.path.isfile holds of the paths in DOMAIN fs). status becomes "exit" at
\* sys.exit(1), "KeyError" when pt has no record for the sample number, and the
\* name of the exception ("EOFError", "wave.Error", "TypeError", "struct.error")
\* when trimming raises; the time is then not advanced.
LoopBody(s, note, pt, fs, fmt) ==
    IF note.pad # 128
    THEN LET r == notetuple_to_note_filename(note, fmt)
         IN  IF r.kind = "exit"
             THEN [ s EXCEPT !.status = "exit" ]
             ELSE LET note_filename == r.value
                      note_path == SdRoot \o SAMPLE_DIRECTORY \o note_filename
                      s1 == [ s EXCEPT !.wave_table_list = Append(@, note_filename),
                                       !.path_list = Append(@, note_path) ]
                      s2 == AssignPitch(s1, note_path)
                      number == notetuple_to_sample_number(note).value
                  IN  IF note_path \in DOMAIN fs
                      THEN IF number \in DOMAIN pt
                           THEN LET s3 == AddNote(s2, note, note_path, note_filename,
                                                  pt[number], fs[note_path])
                                IN  IF s3.status = "ok" THEN AdvanceTime(s3, note) ELSE s3
                           ELSE [ s2 EXCEPT !.status = "KeyError" ]
                      ELSE AdvanceTime(s2, note)
    ELSE AdvanceTime(s, note)

\* The loop over note_path_to_pitch after the note loop: the names of the template
\* wav files copied from the trimmed mono files of existing samples.
TemplateWavs(path_to_pitch, fs) ==
    { "template" \o FormatZeroPadded(path_to_pitch[p] - 35, 2) \o ".wav" :
        p \in { q \in DOMAIN path_to_pitch : q \in DOMAIN fs } }

\* pattern.upper()
PatternUpper(name) == join([ k \in 1 .. Len(name) |-> upper(name[k]) ])

MidiFileName(name) == "PTN_" \o PatternUpper(name) \o ".mid"

-----------------------------------------------------------------------------
(* create_template *)

\* The document create_template builds from the two lists: the preset's key range,
\* one instrument zone and one wavetable per entry of wave_table_list. The header
\* elements and names, which hold no input but the date, are left out. The name of
\* a wavetable is its file name without ".wav" and ".aiff" (lower case only).
create_template(wave_tables, paths) ==
    LET begin_key == 36
        end_key == begin_key + Len(wave_tables) - 1
    IN  [ preset_key_range |-> [ begin |-> begin_key, end |-> end_key ],
          zones |->
            [ k \in 1 .. Len(wave_tables) |->
                [ begin             |-> begin_key + (k - 1),
                  end               |-> begin_key + (k - 1),
                  overridingRootKey |-> begin_key + (k - 1),
                  sampleModes       |-> "0_LoopNone",
                  wavetableId       |-> k ] ],
          wavetables |->
            [ k \in 1 .. Len(wave_tables) |->
                [ file |-> paths[k], id |-> k,
                  name |-> replace(replace(wave_tables[k], ".wav"), ".aiff") ] ] ]

TemplatePath == "/tmp/pysftemplate.xml"

SoundfontFileName(name) == "PTN_" \o PatternUpper(name) \o ".sf2"

-----------------------------------------------------------------------------
(* Initial states *)

SampleFormats == {"WAV"}

\* The pattern name of a run of the script: "a1".
PatternArgs == { << 97, 49 >> }

NoCall == [ fn |-> "main", args |-> <<>> ]
NoReturn == [ kind |-> "none", value |-> 0 ]

\* The pad tables get_pad_info may return: every pad holds the same record.
PadTables == { [ k \in PadNumbers |-> r ] : r \in PadRecords }

\* The sample files a card may hold at the paths of sample format fmt.
CardContents(fmt) == UNION { [ S -> SampleFiles ] : S \in SUBSET SamplePaths(fmt) }

\* The script after get_pad_info, at the head of get_pattern's loop: the pattern file
\* is open and its size known.
InitMain ==
    /\ pc = "get_pattern"
    /\ call = NoCall
    /\ ret = NoReturn
    /\ sampleformat \in SampleFormats
    /\ pattern \in PatternArgs
    /\ pads \in PadTables
    /\ files \in CardContents(sampleformat)
    /\ ptn_filesize \in 0 .. MaxFileSize
    /\ fpos = 0
    /\ i = 0
    /\ notes = <<>>
    /\ n = 1
    /\ midi_file = InitialLocals.midi_file
    /\ note_path_to_pitch = InitialLocals.note_path_to_pitch
    /\ next_available_pitch = InitialLocals.next_available_pitch
    /\ wave_table_list = InitialLocals.wave_table_list
    /\ path_list = InitialLocals.path_list
    /\ time_in_beats_for_next_note = InitialLocals.time_in_beats_for_next_note
    /\ xml_data = <<>>
    /\ written = {}

\* Character codes of str(k) for 0 <= k <= 99.
Digits(k) == IF k < 10 THEN << 48 + k >> ELSE << 48 + (k \div 10), 48 + (k % 10) >>

\* Pattern names <Letter><1-12>, letters A..J in either case.
PatternNames ==
    { << c >> \o Digits(k) : c \in (65 .. 74) \cup (97 .. 106), k \in 1 .. 12 }

\* Pad numbers notetuple_to_sample_number can return for a byte-sized pad field.
PadNumberArgs == (0 - 46) .. (255 - 46 + PADS_PER_BANK * 5)

Bytes == 0 .. 255

NoteOf(p, b) ==
    [ delay |-> 0, pad |-> p, bank_switch |-> b, unknown2 |-> 0, velocity |-> 127,
      unknown3 |-> 0, length |-> PPQ ]

\* Direct applications of the index functions, as the module's own assert lines make.
Calls ==
    { [ fn |-> "pad_number_to_filename", args |-> << k, f >> ] :
        k \in PadNumberArgs, f \in {"WAV", "AIFF"} }
    \cup { [ fn |-> "pattern_name_to_filename", args |-> << nm >> ] : nm \in PatternNames }
    \cup { [ fn |-> "notetuple_to_sample_number", args |-> << NoteOf(p, b) >> ] :
             p \in Bytes, b \in Bytes }

InitCall ==
    /\ pc = "call"
    /\ call \in Calls
    /\ ret = NoReturn
    /\ sampleformat = "WAV"
    /\ pattern = <<>>
    /\ pads = <<>>
    /\ files = <<>>
    /\ ptn_filesize = 0
    /\ fpos = 0
    /\ i = 0
    /\ notes = <<>>
    /\ n = 1
    /\ midi_file = InitialLocals.midi_file
    /\ note_path_to_pitch = InitialLocals.note_path_to_pitch
    /\ next_available_pitch = InitialLocals.next_available_pitch
    /\ wave_table_list = InitialLocals.wave_table_list
    /\ path_list = InitialLocals.path_list
    /\ time_in_beats_for_next_note = InitialLocals.time_in_beats_for_next_note
    /\ xml_data = <<>>
    /\ written = {}

Init == InitMain \/ InitCall

-----------------------------------------------------------------------------
(* Actions *)

inputs == << sampleformat, pattern, pads, files, ptn_filesize >>
parsed == << fpos, i, notes >>
locals ==
    << n, midi_file, note_path_to_pitch, next_available_pitch, wave_table_list, path_list,
       time_in_beats_for_next_note >>

\* get_pattern, one iteration: read 8 bytes, unpack, append. A read that delivers
\* fewer than 8 bytes makes struct.unpack raise struct.error.
GetPatternRead ==
    /\ pc = "get_pattern"
    /\ MoreNotes(i, ptn_filesize)
    /\ IF ptn_filesize - fpos >= 8
       THEN \E note_data \in Blocks :
                /\ notes' = Append(notes, Unpack(note_data))
                /\ fpos' = fpos + 8
                /\ i' = i + 1
                /\ pc' = pc
       ELSE /\ pc' = "struct.error"
            /\ UNCHANGED parsed
    /\ UNCHANGED << call, ret, inputs, locals, xml_data, written >>

\* get_pattern returns notes; create_midi_file starts and sets up its locals.
GetPatternReturn ==
    /\ pc = "get_pattern"
    /\ ~ MoreNotes(i, ptn_filesize)
    /\ pc' = "create_midi_file"
    /\ n' = 1
    /\ midi_file' = InitialLocals.midi_file
    /\ note_path_to_pitch' = InitialLocals.note_path_to_pitch
    /\ next_available_pitch' = InitialLocals.next_available_pitch
    /\ wave_table_list' = InitialLocals.wave_table_list
    /\ path_list' = InitialLocals.path_list
    /\ time_in_beats_for_next_note' = InitialLocals.time_in_beats_for_next_note
    /\ UNCHANGED << call, ret, inputs, parsed, xml_data, written >>

Locals ==
    [ midi_file                   |-> midi_file,
      note_path_to_pitch          |-> note_path_to_pitch,
      next_available_pitch        |-> next_available_pitch,
      wave_table_list             |-> wave_table_list,
      path_list                   |-> path_list,
      time_in_beats_for_next_note |-> time_in_beats_for_next_note,
      written                     |-> written,
      status                      |-> "ok" ]

\* create_midi_file, one iteration of `for note in notes`.
CreateMidiFileNote ==
    /\ pc = "create_midi_file"
    /\ n <= Len(notes)
    /\ LET s == LoopBody(Locals, notes[n], pads, files, sampleformat)
       IN  /\ midi_file' = s.midi_file
           /\ note_path_to_pitch' = s.note_path_to_pitch
           /\ next_available_pitch' = s.next_available_pitch
           /\ wave_table_list' = s.wave_table_list
           /\ path_list' = s.path_list
           /\ time_in_beats_for_next_note' = s.time_in_beats_for_next_note
           /\ written' = s.written
           /\ pc' = IF s.status = "ok" THEN pc ELSE s.status
           /\ n' = IF s.status = "ok" THEN n + 1 ELSE n
    /\ UNCHANGED << call, ret, inputs, parsed, xml_data >>

\* create_midi_file after the loop: copy the template wavs, write the MIDI file, return.
CreateMidiFileWrite ==
    /\ pc = "create_midi_file"
    /\ n > Len(notes)
    /\ written' = written \cup TemplateWavs(note_path_to_pitch, files)
                          \cup { MidiFileName(pattern) }
    /\ pc' = "create_template"
    /\ UNCHANGED << call, ret, inputs, parsed, locals, xml_data >>

CreateTemplate ==
    /\ pc = "create_template"
    /\ xml_data' = << create_template(wave_table_list, path_list) >>
    /\ written' = written \cup { TemplatePath }
    /\ pc' = "create_soundfont_file"
    /\ UNCHANGED << call, ret, inputs, parsed, locals >>

\* pysf.XmlToSf compiles the template into the soundfont file.
CreateSoundfontFile ==
    /\ pc = "create_soundfont_file"
    /\ written' = written \cup { SoundfontFileName(pattern) }
    /\ pc' = "done"
    /\ UNCHANGED << call, ret, inputs, parsed, locals, xml_data >>

CallPadNumberToFilename ==
    /\ pc = "call"
    /\ call.fn = "pad_number_to_filename"
    /\ ret' = Return(pad_number_to_filename(call.args[1], call.args[2]))
    /\ pc' = "returned"
    /\ UNCHANGED << call, inputs, parsed, locals, xml_data, written >>

CallPatternNameToFilename ==
    /\ pc = "call"
    /\ call.fn = "pattern_name_to_filename"
    /\ ret' = Return(pattern_name_to_filename(call.args[1]))
    /\ pc' = "returned"
    /\ UNCHANGED << call, inputs, parsed, locals, xml_data, written >>

CallNotetupleToSampleNumber ==
    /\ pc = "call"
    /\ call.fn = "notetuple_to_sample_number"
    /\ ret' = notetuple_to_sample_number(call.args[1])
    /\ pc' = IF ret'.kind = "exit" THEN "exit" ELSE "returned"
    /\ UNCHANGED << call, inputs, parsed, locals, xml_data, written >>

Next ==
    \/ GetPatternRead
    \/ GetPatternReturn
    \/ CreateMidiFileNote
    \/ CreateMidiFileWrite
    \/ CreateTemplate
    \/ CreateSoundfontFile
    \/ CallPadNumberToFilename
    \/ CallPatternNameToFilename
    \/ CallNotetupleToSampleNumber

Spec == Init /\ [][Next]_vars

-----------------------------------------------------------------------------
(* Properties of the timeline pass *)

\* A run of the script, as opposed to a direct call of an index function.
RunsMain == call.fn = "main"

ValidBankSwitches == {0, 1, 64, 65}

\* Number of events whose pitch bookkeeping is done: the events before the cursor,
\* and the event at the cursor when the pad lookup or the trimming failed after it.
Booked ==
    IF pc \in {"KeyError", "EOFError", "wave.Error", "TypeError", "struct.error"}
    THEN n ELSE n - 1

\* The sample path of a non-rest event with a valid bank switch.
PathOf(note) ==
    SdRoot \o SAMPLE_DIRECTORY \o notetuple_to_note_filename(note, sampleformat).value

\* Sum of the delay fields of the first k events.
RECURSIVE SumDelays(_, _)
SumDelays(evs, k) == IF k = 0 THEN 0 ELSE SumDelays(evs, k - 1) + evs[k].delay

\* Indices, in order, of the events before the cursor that are notes of an existing
\* sample.
EmittedEvents ==
    SelectSeq([ k \in 1 .. (n - 1) |-> k ],
              LAMBDA k : notes[k].pad # 128 /\ PathOf(notes[k]) \in DOMAIN files)

\* C1: the time cursor is the sum of the delays of all events processed so far,
\* divided by 96, whether the events are notes, rests or notes of a missing sample;
\* the emitted notes are those of the existing samples in event order, each
\* starting at the sum of the delays of the events strictly before it (in beats, to
\* the precision of a float: the float nearest to sum / 96) and lasting its own
\* length / 96, so start times never decrease.
C1_StartIsSumOfDelays ==
    RunsMain =>
        /\ time_in_beats_for_next_note = DivideByPPQ(SumDelays(notes, n - 1))
        /\ Len(midi_file) = Len(EmittedEvents)
        /\ \A j \in 1 .. Len(midi_file) :
               /\ midi_file[j].time = DivideByPPQ(SumDelays(notes, EmittedEvents[j] - 1))
               /\ midi_file[j].duration = DivideByPPQ(notes[EmittedEvents[j]].length)
        /\ \A j \in 1 .. (Len(midi_file) - 1) :
               FloatLeq(midi_file[j].time, midi_file[j + 1].time)

\* The distinct sample paths of the first k events, in order of first occurrence.
RECURSIVE FirstOccurrences(_, _)
FirstOccurrences(evs, k) ==
    IF k = 0 THEN <<>>
    ELSE LET before == FirstOccurrences(evs, k - 1)
         IN  IF evs[k].pad = 128 \/ \E j \in 1 .. Len(before) : before[j] = PathOf(evs[k])
             THEN before
             ELSE Append(before, PathOf(evs[k]))

\* C2: after any prefix of events the k-th distinct sample path, in order of first
\* occurrence, has pitch 36 + (k - 1), whatever its sample index; so distinct paths
\* have distinct pitches, the pitches form the range 36 .. 36 + N - 1 for N distinct
\* paths, and a path keeps the pitch it was given.
C2_PitchByFirstOccurrence ==
    RunsMain =>
        LET order == FirstOccurrences(notes, Booked)
        IN  /\ DOMAIN note_path_to_pitch = { order[k] : k \in 1 .. Len(order) }
            /\ \A k \in 1 .. Len(order) : note_path_to_pitch[order[k]] = 36 + (k - 1)
            /\ { note_path_to_pitch[q] : q \in DOMAIN note_path_to_pitch }
                   = 36 .. (36 + Len(order) - 1)
            /\ next_available_pitch = 36 + Len(order)

\* A finished run that met sample 61 first and sample 1 second: the higher index
\* holds pitch 36 and the lower index pitch 37.
C2_Witness ==
    /\ RunsMain
    /\ pc = "done"
    /\ Len(notes) = 2
    /\ notes[1].pad # 128 /\ notes[2].pad # 128
    /\ notetuple_to_sample_number(notes[1]).value = 61
    /\ notetuple_to_sample_number(notes[2]).value = 1
    /\ note_path_to_pitch[PathOf(notes[1])] = 36
    /\ note_path_to_pitch[PathOf(notes[2])] = 37

\* The MIDI file, the template and the soundfont file of the run.
Artifacts == { MidiFileName(pattern), TemplatePath, SoundfontFileName(pattern) }

\* C5: notetuple_to_sample_number returns no index for a bank_switch outside
\* {0, 1, 64, 65}, whatever the pad: it exits. In a run, the cursor never passes a
\* non-rest event with such a bank_switch, the run is then at "exit" with the cursor
\* on that event, and none of the MIDI file, the template and the soundfont file
\* is written.
C5_InvalidBankSwitchAborts ==
    /\ ( /\ call.fn = "notetuple_to_sample_number"
         /\ pc # "call"
         /\ call.args[1].bank_switch \notin ValidBankSwitches )
       => ( ret.kind = "exit" /\ pc = "exit" )
    /\ RunsMain =>
         /\ \A k \in 1 .. Len(notes) :
                ( notes[k].pad # 128 /\ notes[k].bank_switch \notin ValidBankSwitches )
                => ( n <= k /\ written \cap Artifacts = {} )
         /\ \A k \in 1 .. Len(notes) :
                ( /\ notes[k].pad # 128
                  /\ notes[k].bank_switch \notin ValidBankSwitches
                  /\ n = k
                  /\ pc # "get_pattern" )
                => pc \in {"create_midi_file", "exit"}
         /\ pc = "exit" =>
                /\ n <= Len(notes)
                /\ notes[n].pad # 128
                /\ notes[n].bank_switch \notin ValidBankSwitches

\* The run exited at its first event, a note with bank_switch 2, with a second event
\* left unprocessed and nothing written.
C5_Witness ==
    /\ RunsMain
    /\ pc = "exit"
    /\ Len(notes) = 2
    /\ n = 1
    /\ notes[1].bank_switch = 2
    /\ notes[2].pad # 128
    /\ notes[2].bank_switch = 0
    /\ PathOf(notes[2]) \in DOMAIN files
    /\ midi_file = <<>>
    /\ written = {}

-----------------------------------------------------------------------------
(* Properties of the instrument *)

\* The zones of a template as pairs of key and sample path.
ZonesOf(doc) ==
    { [ key |-> doc.zones[k].begin, file |-> doc.wavetables[doc.zones[k].wavetableId].file ] :
        k \in 1 .. Len(doc.zones) }

\* C3: the template holds one zone per distinct referenced sample, each zone's key
\* range begins and ends at the pitch the timeline pass gave the sample of the zone's
\* wavetable, and the preset key range is [36, 36 + N - 1] for N distinct referenced
\* samples.
C3_OneZonePerDistinctSample ==
    ( RunsMain /\ xml_data # <<>> ) =>
        LET doc == xml_data[1]
            N == Cardinality(DOMAIN note_path_to_pitch)
        IN  /\ Len(doc.zones) = N
            /\ \A k \in 1 .. Len(doc.zones) :
                   /\ doc.zones[k].begin = doc.zones[k].end
                   /\ doc.zones[k].begin
                          = note_path_to_pitch[doc.wavetables[doc.zones[k].wavetableId].file]
            /\ doc.preset_key_range = [ begin |-> 36, end |-> 36 + N - 1 ]

\* The note loop of create_midi_file run over the first k events with pad table pt
\* and sample files fs.
RECURSIVE RunLoop(_, _, _, _, _)
RunLoop(evs, k, pt, fs, fmt) ==
    IF k = 0 THEN InitialLocals
    ELSE LET s == RunLoop(evs, k - 1, pt, fs, fmt)
         IN  IF s.status = "ok" THEN LoopBody(s, evs[k], pt, fs, fmt) ELSE s

\* The card with a mono 16-bit wav of 1000 frames put at every referenced path that
\* has none.
WithMissingFiles ==
    [ q \in DOMAIN files \cup DOMAIN note_path_to_pitch |->
        IF q \in DOMAIN files THEN files[q]
        ELSE [ open |-> "ok", nchannels |-> 1, sampwidth |-> 2, framerate |-> 44100,
               nframes |-> 1000 ] ]

\* C4: a run with missing sample files reaches the template, and compared with the
\* run on the same events in which those files exist, its track holds the same notes
\* but those of the missing samples, and its template the same zones but those of
\* the missing samples.
C4_MissingSampleOmitsOnlyItsNotesAndZone ==
    ( RunsMain /\ pc \in {"create_template", "create_soundfont_file", "done"} ) =>
        LET ref == RunLoop(notes, Len(notes), pads, WithMissingFiles, sampleformat)
            refdoc == create_template(ref.wave_table_list, ref.path_list)
            present(m) == \E q \in DOMAIN files \cap DOMAIN ref.note_path_to_pitch :
                              ref.note_path_to_pitch[q] = m.pitch
        IN  ref.status = "ok" =>
                /\ midi_file = SelectSeq(ref.midi_file, present)
                /\ xml_data # <<>> =>
                       ZonesOf(xml_data[1])
                           = { z \in ZonesOf(refdoc) : z.file \in DOMAIN files }

-----------------------------------------------------------------------------
(* Properties of the pattern parser *)

\* C6: for a file of 16 bytes or more get_pattern returns floor(size / 8) - 2 events
\* read from consecutive blocks at offset 0, and reads no byte of the last 16.
C6_EventCountIsFloor ==
    ( RunsMain /\ pc # "get_pattern" /\ ptn_filesize >= 16 ) =>
        /\ Len(notes) = (ptn_filesize \div 8) - 2
        /\ fpos = 8 * Len(notes)
        /\ fpos <= ptn_filesize - 16

\* C7: a pattern file smaller than its 16-byte trailer makes the run fail: get_pattern
\* returns no event list and nothing is written.
C7_TruncatedPatternFails ==
    ( RunsMain /\ ptn_filesize < 16 ) =>
        /\ pc \in {"get_pattern", "TruncatedFileError"}
        /\ written = {}

-----------------------------------------------------------------------------
(* Properties of the index functions *)

Returned(fn) == call.fn = fn /\ pc = "returned"

DigitStrings == << "0", "1", "2", "3", "4", "5", "6", "7", "8", "9" >>

\* (toupper(name[0]) - 'A') * 12 + (integer(name[1:]) mod 12) for a name of a letter
\* and one or two digits.
DocumentedFileId(name) ==
    LET letter == IF name[1] >= 97 THEN name[1] - 97 ELSE name[1] - 65
        number == IF Len(name) = 2 THEN name[2] - 48
                  ELSE (name[2] - 48) * 10 + (name[3] - 48)
    IN  letter * 12 + (number % 12)

\* "PTN%05d.BIN" for an id below 1000.
PatternFileOfId(id) ==
    "PTN00" \o DigitStrings[(id \div 100) + 1] \o DigitStrings[((id \div 10) % 10) + 1]
            \o DigitStrings[(id % 10) + 1] \o ".BIN"

\* C8 as stated: "A1" gives id 0 (PTN00000.BIN) and "B11" gives id 22.
C8_A1IsFile0AndB11IsFile22 ==
    /\ ( Returned("pattern_name_to_filename") /\ call.args[1] = << 65, 49 >> )
       => ret.value = PatternFileOfId(0)
    /\ ( Returned("pattern_name_to_filename") /\ call.args[1] = << 66, 49, 49 >> )
       => ret.value = PatternFileOfId(22)

\* C8 amended: for a name <Letter><1-12> the file is that of the id
\* (toupper(name[0]) - 'A') * 12 + (integer(name[1:]) mod 12); "A1" gives id 1
\* (PTN00001.BIN) and "B11" gives id 23 (PTN00023.BIN).
C8_FileIdFollowsDocumentedArithmetic ==
    Returned("pattern_name_to_filename") =>
        /\ ret.value = PatternFileOfId(DocumentedFileId(call.args[1]))
        /\ call.args[1] = << 65, 49 >> => ret.value = "PTN00001.BIN"
        /\ call.args[1] = << 66, 49, 49 >> => ret.value = "PTN00023.BIN"

\* pattern_name_to_filename("B11") has returned PTN00023.BIN.
C8_Witness ==
    /\ Returned("pattern_name_to_filename")
    /\ call.args[1] = << 66, 49, 49 >>
    /\ ret.value = "PTN00023.BIN"

\* C9: for a non-rest event with bank_switch in {0, 1, 64, 65} the sample number is
\* pad - 46, or pad - 46 + 60 for bank_switch 1 or 65, and lies in 1 .. 120; so the
\* pad lookup of a run never fails.
C9_SampleNumberInRange ==
    /\ ( /\ call.fn = "notetuple_to_sample_number"
         /\ pc # "call"
         /\ call.args[1].pad # 128
         /\ call.args[1].bank_switch \in ValidBankSwitches )
       => /\ ret.kind = "return"
          /\ ret.value = call.args[1].pad - 46
                         + (IF call.args[1].bank_switch \in {1, 65} THEN 60 ELSE 0)
          /\ ret.value \in 1 .. 120
    /\ RunsMain => pc # "KeyError"

BankLetters == << "A", "B", "C", "D", "E", "F", "G", "H", "I", "J" >>

InBankNumbers ==
    << "0000001", "0000002", "0000003", "0000004", "0000005", "0000006",
       "0000007", "0000008", "0000009", "0000010", "0000011", "0000012" >>

\* The name of pad m of bank b in the naming scheme {A..J} x {0000001..0000012}.
SchemeName(b, m, fmt) == BankLetters[b] \o InBankNumbers[m] \o "." \o fmt

\* C10: for a fixed extension and an index k in 1 .. 120, pad_number_to_filename
\* gives the name of bank 1 + floor((k - 1) / 12) and pad ((k - 1) mod 12) + 1; no
\* other index in 1 .. 120 gives that name, every name of the scheme is the name of
\* the index 12 * (b - 1) + m, index 1 gives A0000001 and index 120 gives J0000012.
C10_PadNamesAreABijection ==
    ( Returned("pad_number_to_filename") /\ call.args[1] \in 1 .. 120 ) =>
        LET k == call.args[1]
            fmt == call.args[2]
        IN  /\ ret.value = SchemeName(((k - 1) \div 12) + 1, ((k - 1) % 12) + 1, fmt)
            /\ \A j \in (1 .. 120) \ {k} : pad_number_to_filename(j, fmt) # ret.value
            /\ \A b \in 1 .. 10, m \in 1 .. 12 :
                   pad_number_to_filename(12 * (b - 1) + m, fmt) = SchemeName(b, m, fmt)
            /\ k = 1 => ret.value = "A0000001." \o fmt
            /\ k = 120 => ret.value = "J0000012." \o fmt

\* pad_number_to_filename(120, "WAV") has returned J0000012.WAV.
C10_Witness ==
    /\ Returned("pad_number_to_filename")
    /\ call.args = << 120, "WAV" >>
    /\ ret.value = "J0000012.WAV"

====
